---------------------------- MODULE Spec2Model ----------------------------
(***************************************************************************)
(* A model of github.com/xgfone/messageapi: the provider registry          *)
(* (RegisterEmail / RegisterSMS / GetEmail / GetSMS), the configuration    *)
(* swap of package app (ResetConfig, parseConfig, the /v1/config handler)  *)
(* and the send handlers (/v1/email, /v1/sms) with their "all" and retry   *)
(* dispatch.                                                               *)
(*                                                                         *)
(* Seven specifications:                                                   *)
(*   SpecRegistry  the start-up phase, in which plugins register;          *)
(*   SpecConfig    the serving phase of /v1/config: the handler and an     *)
(*                 embedding program both call ResetConfig, interleaved    *)
(*                 statement by statement;                                 *)
(*   SpecSend      the serving phase of /v1/email and /v1/sms: one send    *)
(*                 request at a time, interleaved with ResetConfig.        *)
(*   SpecProvider  the plainEmail provider: calls of Load and a call of    *)
(*                 SendEmail on the one instance, statement by statement;  *)
(*   SpecOrder     two "all" dispatches against the same snapshot;         *)
(*   SpecLock      the statements of the two ResetConfig callers and of a  *)
(*                 send request around configLocker and the provider       *)
(*                 calls;                                                  *)
(*   SpecPlainLoad plainEmail.Load on option maps, call by call: the       *)
(*                 presence checks, the parsing of the port and the        *)
(*                 fields it stores.                                       *)
(***************************************************************************)
EXTENDS Integers, Sequences, FiniteSets, TLC

VARIABLES
    regEmails,   \* messageapi.emails : name -> provider instance
    regSMSes,    \* messageapi.smses  : name -> provider instance
    phase,       \* "startup" | "serving" | "crashed" (a panic during start-up)
    lastReg,     \* the last Register call: [cat, name, inst, panicked] (history)
    objs,        \* the heap of *Config objects, by address 1..Len(objs)
    config,      \* app.config : the address of the active *Config
    loaded,      \* per provider instance: the configuration its last successful Load stored
    lastLoadOk,  \* per provider instance: whether its most recent Load succeeded
    nCalls,      \* number of ResetConfig calls begun so far
    ap,          \* the two callers of ResetConfig: "lib" and "http"
    rq,          \* the send request in flight
    pe,          \* the plainEmail instance: addr, auth, from and its mutex
    ld,          \* the calls of plainEmail.Load in flight, one per caller
    sd,          \* the call of plainEmail.SendEmail in flight
    dp,          \* two "all" dispatches against one snapshot (SpecOrder)
    configLocker \* app.configLocker: its holder, and the statement each goroutine is at

vars == <<regEmails, regSMSes, phase, lastReg, objs, config, loaded, lastLoadOk,
          nCalls, ap, rq, pe, ld, sd, dp, configLocker>>

regVars  == <<regEmails, regSMSes, phase, lastReg>>
confVars == <<objs, config, loaded, lastLoadOk, nCalls, ap>>
provVars == <<pe, ld, sd>>

----------------------------------------------------------------------------
(* Bounds *)

\* largest value of the "retry" argument a request carries (smallest is -1)
MaxRetry == 2
\* number of ResetConfig calls after the one made by Start, while the
\* /v1/config handler and an embedding program both reset the configuration
MaxConfigCalls == 2
\* number of ResetConfig calls after the one made by Start, while send requests
\* are served
MaxSendCalls == 1

----------------------------------------------------------------------------
(* Values *)

Nil == "nil"

\* the empty Go map (a nil map reads the same: len 0, every lookup misses)
EmptyMap == [n \in {} |-> Nil]

\* provider instances: 1 and 2 implement Email, 3 and 4 implement SMS
EmailInsts == {1, 2}
SMSInsts   == {3, 4}
Insts      == EmailInsts \cup SMSInsts

\* names under which plugins register
PluginNames == {"plain", "alt"}

\* raw provider configurations (map[string]string); Load rejects "bad"
Cfgs == {"c1", "c2", "bad"}

\* const defaultSMSProvider / defaultEmailProvider
defaultSMSProvider == ""
defaultEmailProvider == "plain"

----------------------------------------------------------------------------
(* The registry (package messageapi) *)

\* the nil provider that GetEmail and GetSMS return for an unknown name
NoProvider == 0

\* GetEmail: the provider registered under name, nil if there is none
GetEmail(name) == IF name \in DOMAIN regEmails THEN regEmails[name] ELSE NoProvider

\* GetSMS: the provider registered under name, nil if there is none
GetSMS(name) == IF name \in DOMAIN regSMSes THEN regSMSes[name] ELSE NoProvider

\* a registration that replaces an existing entry instead of panicking
RegisterOverwriting(reg, name, inst) ==
    <<[n \in DOMAIN reg \cup {name} |-> IF n = name THEN inst ELSE reg[n]], FALSE>>

\* the body of RegisterEmail / RegisterSMS on the map reg: <<map', panicked>>
Register(reg, name, inst) ==
    IF name \in DOMAIN reg
    THEN <<reg, TRUE>>
    ELSE <<[n \in DOMAIN reg \cup {name} |-> IF n = name THEN inst ELSE reg[n]], FALSE>>

\* m[k] = v on a Go map
Put(m, k, v) == [n \in DOMAIN m \cup {k} |-> IF n = k THEN v ELSE m[n]]

\* a map read that adds the key it does not find, with the zero value
MapReadInserting(m, k) == IF k \in DOMAIN m THEN m ELSE Put(m, k, NoProvider)

\* the map after  v, ok := m[k] : a read leaves a Go map as it is, for a
\* key it holds and for a key it does not hold
MapRead(m, k) == m

\* lastReg before any registration
NoRegistration == [cat |-> Nil, name |-> Nil, inst |-> NoProvider, panicked |-> FALSE]

RegisterEmail(name, inst) ==
    /\ phase = "startup"
    /\ LET r == Register(regEmails, name, inst) IN
        /\ regEmails' = r[1]
        /\ phase' = IF r[2] THEN "crashed" ELSE phase
        /\ lastReg' = [cat |-> "email", name |-> name, inst |-> inst, panicked |-> r[2]]
    /\ UNCHANGED <<regSMSes, confVars, rq, provVars, dp, configLocker>>

RegisterSMS(name, inst) ==
    /\ phase = "startup"
    /\ LET r == Register(regSMSes, name, inst) IN
        /\ regSMSes' = r[1]
        /\ phase' = IF r[2] THEN "crashed" ELSE phase
        /\ lastReg' = [cat |-> "sms", name |-> name, inst |-> inst, panicked |-> r[2]]
    /\ UNCHANGED <<regEmails, confVars, rq, provVars, dp, configLocker>>

----------------------------------------------------------------------------
(* Config objects (package app) *)

\* the names a configuration document may use for a provider
ConfNames == PluginNames \cup {"nx"}

\* the admin keys: none, or the secret
AdminKeys == {"", "k"}

\* the public fields of a Config, as an embedding program or a JSON document
\* sets them
SetBoth ==
    [AllowGet |-> TRUE, IgnoreNotSupportedProvider |-> FALSE,
     DefaultSMSProvider |-> "", DefaultEmailProvider |-> "",
     Emails |-> ("plain" :> "c1" @@ "alt" :> "c1"), SMSes |-> ("plain" :> "c1")]
SetAlt ==
    [AllowGet |-> FALSE, IgnoreNotSupportedProvider |-> FALSE,
     DefaultSMSProvider |-> "plain", DefaultEmailProvider |-> "alt",
     Emails |-> ("alt" :> "c2"), SMSes |-> ("plain" :> "c2")]
SetBadLoad ==
    [AllowGet |-> TRUE, IgnoreNotSupportedProvider |-> FALSE,
     DefaultSMSProvider |-> "", DefaultEmailProvider |-> "plain",
     Emails |-> ("plain" :> "c2" @@ "alt" :> "bad"), SMSes |-> ("plain" :> "c2")]
SetUnknownIgnored ==
    [AllowGet |-> FALSE, IgnoreNotSupportedProvider |-> TRUE,
     DefaultSMSProvider |-> "", DefaultEmailProvider |-> "plain",
     Emails |-> ("nx" :> "c1" @@ "plain" :> "c2"), SMSes |-> EmptyMap]
SetUnknown ==
    [AllowGet |-> FALSE, IgnoreNotSupportedProvider |-> FALSE,
     DefaultSMSProvider |-> "", DefaultEmailProvider |-> "plain",
     Emails |-> ("plain" :> "c1"), SMSes |-> ("nx" :> "c1")]
SetNone ==
    [AllowGet |-> FALSE, IgnoreNotSupportedProvider |-> FALSE,
     DefaultSMSProvider |-> "", DefaultEmailProvider |-> "plain",
     Emails |-> EmptyMap, SMSes |-> EmptyMap]

Settings == {SetBoth, SetAlt, SetBadLoad, SetUnknownIgnored, SetUnknown, SetNone}

\* the settings Start is called with (its ResetConfig succeeds on them)
StartSettings == {SetBoth, SetAlt}

\* NewDefaultConfig(key): the unexported maps are the zero values
NewDefaultConfig(key) ==
    [AllowGet |-> FALSE, IgnoreNotSupportedProvider |-> FALSE,
     DefaultSMSProvider |-> "", DefaultEmailProvider |-> "plain",
     Emails |-> EmptyMap, SMSes |-> EmptyMap,
     key |-> key, emails |-> EmptyMap, smses |-> EmptyMap]

\* c with its public fields set to s (c.AllowGet = ..., c.Emails = ..., ...)
WithSettings(c, s) ==
    [c EXCEPT !.AllowGet = s.AllowGet,
              !.IgnoreNotSupportedProvider = s.IgnoreNotSupportedProvider,
              !.DefaultSMSProvider = s.DefaultSMSProvider,
              !.DefaultEmailProvider = s.DefaultEmailProvider,
              !.Emails = s.Emails, !.SMSes = s.SMSes]

\* the key parseConfig leaves in the Config it builds: new(Config), never set
ParsedKey(docKey) == ""

\* parseConfig on a well-typed document whose fields are s and whose "key" is
\* docKey: new(Config) with the public fields copied
parseConfig(s, docKey) ==
    WithSettings([NewDefaultConfig(ParsedKey(docKey)) EXCEPT !.DefaultEmailProvider = ""], s)

\* the snapshot a reader sees through a *Config: flags, default names, maps
Snapshot(c) ==
    [AllowGet |-> c.AllowGet, DefaultSMSProvider |-> c.DefaultSMSProvider,
     DefaultEmailProvider |-> c.DefaultEmailProvider,
     IgnoreNotSupportedProvider |-> c.IgnoreNotSupportedProvider,
     key |-> c.key, emails |-> c.emails, smses |-> c.smses]

----------------------------------------------------------------------------
(* Providers *)

\* whether provider.Load(c) returns an error (plainEmail.Load: a required
\* option is missing or the port does not parse)
LoadFails(c) == c = "bad"

\* provider.Load(c) on instance inst: <<loaded', lastLoadOk'>>. A failing Load
\* returns before it stores anything
Load(inst, c) ==
    IF LoadFails(c)
    THEN <<loaded, [lastLoadOk EXCEPT ![inst] = FALSE]>>
    ELSE <<[loaded EXCEPT ![inst] = c], [lastLoadOk EXCEPT ![inst] = TRUE]>>

\* the callers of ResetConfig: an embedding program and the /v1/config handler
ApplyProcs == {"lib", "http"}

----------------------------------------------------------------------------
(* The plainEmail provider, statement by statement *)

\* the plainEmail instance whose fields all come from the Load of m
PlainAfterLoad(m) == [addr |-> m, auth |-> m, from |-> m, mu |-> Nil]

\* no call of Load in flight for a caller; no call of SendEmail in flight
IdleLoad == [pc |-> "idle", m |-> Nil, err |-> FALSE]
IdleSendEmail == [pc |-> "idle", from |-> Nil, addr |-> Nil, auth |-> Nil]

\* ResetConfig, run by caller p, calls provider.Load(m)
plainLoadCall(p) ==
    /\ phase = "serving"
    /\ ld[p].pc = "idle"
    /\ \E m \in Cfgs : ld' = [ld EXCEPT ![p] = [pc |-> "l38", m |-> m, err |-> FALSE]]
    /\ UNCHANGED <<regVars, confVars, rq, pe, sd, dp, configLocker>>

\* Load reads the options of m: it returns an error for a missing option or a
\* port that does not parse, before it takes the lock
plainLoadCheck(p) ==
    /\ phase = "serving"
    /\ ld[p].pc = "l38"
    /\ ld' = [ld EXCEPT ![p] = IF LoadFails(ld[p].m)
                               THEN [IdleLoad EXCEPT !.err = TRUE]
                               ELSE [ld[p] EXCEPT !.pc = "l58"]]
    /\ UNCHANGED <<regVars, confVars, rq, pe, sd, dp, configLocker>>

\* p.Lock()
plainLoadLock(p) ==
    /\ phase = "serving"
    /\ ld[p].pc = "l58"
    /\ pe.mu = Nil
    /\ pe' = [pe EXCEPT !.mu = p]
    /\ ld' = [ld EXCEPT ![p].pc = "l61"]
    /\ UNCHANGED <<regVars, confVars, rq, sd, dp, configLocker>>

\* p.addr = fmt.Sprintf("%s:%d", host, port)
plainLoadAddr(p) ==
    /\ phase = "serving"
    /\ ld[p].pc = "l61"
    /\ pe' = [pe EXCEPT !.addr = ld[p].m]
    /\ ld' = [ld EXCEPT ![p].pc = "l62"]
    /\ UNCHANGED <<regVars, confVars, rq, sd, dp, configLocker>>

\* p.auth = smtp.PlainAuth("", username, password, host)
plainLoadAuth(p) ==
    /\ phase = "serving"
    /\ ld[p].pc = "l62"
    /\ pe' = [pe EXCEPT !.auth = ld[p].m]
    /\ ld' = [ld EXCEPT ![p].pc = "l63"]
    /\ UNCHANGED <<regVars, confVars, rq, sd, dp, configLocker>>

\* p.from = mail.Address{...}; return nil, and the deferred p.Unlock()
plainLoadFrom(p) ==
    /\ phase = "serving"
    /\ ld[p].pc = "l63"
    /\ pe' = [pe EXCEPT !.from = ld[p].m, !.mu = Nil]
    /\ ld' = [ld EXCEPT ![p] = IdleLoad]
    /\ UNCHANGED <<regVars, confVars, rq, sd, dp, configLocker>>

\* a handler calls SendEmail: msg := email.NewMessage(subject, content)
plainSendCall ==
    /\ phase = "serving"
    /\ sd.pc = "idle"
    /\ sd' = [IdleSendEmail EXCEPT !.pc = "l70"]
    /\ UNCHANGED <<regVars, confVars, rq, pe, ld, dp, configLocker>>

\* msg.From = p.from : the field is read without the lock
plainSendFrom ==
    /\ phase = "serving"
    /\ sd.pc = "l70"
    /\ sd' = [sd EXCEPT !.pc = "l90", !.from = pe.from]
    /\ UNCHANGED <<regVars, confVars, rq, pe, ld, dp, configLocker>>

\* email.Send(p.addr, p.auth, msg) : p.addr is read, without the lock
plainSendAddr ==
    /\ phase = "serving"
    /\ sd.pc = "l90"
    /\ sd' = [sd EXCEPT !.pc = "l90auth", !.addr = pe.addr]
    /\ UNCHANGED <<regVars, confVars, rq, pe, ld, dp, configLocker>>

\* email.Send(p.addr, p.auth, msg) : p.auth is read, without the lock, and
\* the message is sent
plainSendAuth ==
    /\ phase = "serving"
    /\ sd.pc = "l90auth"
    /\ sd' = [sd EXCEPT !.pc = "sent", !.auth = pe.auth]
    /\ UNCHANGED <<regVars, confVars, rq, pe, ld, dp, configLocker>>

\* SendEmail returns
plainSendReturn ==
    /\ phase = "serving"
    /\ sd.pc = "sent"
    /\ sd' = IdleSendEmail
    /\ UNCHANGED <<regVars, confVars, rq, pe, ld, dp, configLocker>>

----------------------------------------------------------------------------
(* ResetConfig, statement by statement, for the caller p *)

\* a caller that is not inside ResetConfig nor inside the /v1/config handler
IdleCall ==
    [pc |-> "idle", conf |-> 0, todo |-> {},
     _emails |-> EmptyMap, _smses |-> EmptyMap,
     res |-> Nil, status |-> 0, Method |-> Nil, body |-> Nil, docKey |-> Nil]

\* the call has returned res (the handler has answered status)
Returned(a, res, status) ==
    [a EXCEPT !.pc = "done", !.todo = {}, !._emails = EmptyMap, !._smses = EmptyMap,
              !.res = res, !.status = status]

\* the status the /v1/config handler answers once ResetConfig returned res;
\* 0 for a library caller, which answers nothing
StatusOf(p, res) == IF p = "http" THEN (IF res = "ok" THEN 200 ELSE 400) ELSE 0

\* a ResetConfig that goes from the loop over conf.Emails to the store,
\* leaving out the loop over conf.SMSes
AdvanceSkippingSMSes(a, c) ==
    IF a.pc = "emails" /\ a.todo = {} THEN [a EXCEPT !.pc = "l97"] ELSE a

\* the caller a at its next statement: a range loop with no entry left is
\* over, the loop over conf.SMSes follows the one over conf.Emails and
\* conf.emails = _emails follows both (c is the Config the call works on)
Advance(a, c) ==
    LET b == IF a.pc = "emails" /\ a.todo = {}
             THEN [a EXCEPT !.pc = "smses", !.todo = DOMAIN c.SMSes]
             ELSE a
    IN  IF b.pc = "smses" /\ b.todo = {} THEN [b EXCEPT !.pc = "l97"] ELSE b

\* ResetConfig is entered with conf (an address of objs'); the email loop is next
EnterResetConfig(p, a, conf, heap) ==
    /\ nCalls' = nCalls + 1
    /\ ap' = [ap EXCEPT ![p] = Advance([a EXCEPT !.pc = "emails", !.conf = conf,
                                                 !.todo = DOMAIN heap[conf].Emails],
                                       heap[conf])]

\* a ResetConfig that skips every provider that is not registered
OnMissingAlwaysContinue(ignore) == "continue"

\* what ResetConfig does when a provider is not registered, by the draft's
\* IgnoreNotSupportedProvider: skip the entry, or return an error
OnMissing(ignore) == IF ignore THEN "continue" ELSE "return"

\* a ResetConfig that ignores the error of Load and stores the provider
OnLoadIgnoringError(failed) == "store"

\* what ResetConfig does with the result of provider.Load
OnLoad(failed) == IF failed THEN "return" ELSE "store"

\* one iteration of  for n, c := range conf.Emails  (any map order)
ResetConfigEmails(p) ==
    /\ phase = "serving"
    /\ ap[p].pc = "emails"
    /\ LET a == ap[p]
           c == objs[a.conf]
       IN  \E n \in a.todo :
             /\ regEmails' = MapRead(regEmails, n)
             /\ LET provider == GetEmail(n) IN
                IF provider = NoProvider
                THEN /\ ap' = [ap EXCEPT ![p] =
                                 IF OnMissing(c.IgnoreNotSupportedProvider) = "continue"
                                 THEN Advance([a EXCEPT !.todo = a.todo \ {n}], c)
                                 ELSE Returned(a, "noprovider", StatusOf(p, "noprovider"))]
                     /\ UNCHANGED <<loaded, lastLoadOk>>
                ELSE /\ loaded' = Load(provider, c.Emails[n])[1]
                     /\ lastLoadOk' = Load(provider, c.Emails[n])[2]
                     /\ ap' = [ap EXCEPT ![p] =
                                 IF OnLoad(LoadFails(c.Emails[n])) = "return"
                                 THEN Returned(a, "loaderr", StatusOf(p, "loaderr"))
                                 ELSE Advance([a EXCEPT !.todo = a.todo \ {n},
                                                        !._emails = Put(a._emails, n, provider)],
                                              c)]
    /\ UNCHANGED <<regSMSes, phase, lastReg, objs, config, nCalls, rq, provVars, dp, configLocker>>

\* one iteration of  for n, c := range conf.SMSes  (any map order)
ResetConfigSMSes(p) ==
    /\ phase = "serving"
    /\ ap[p].pc = "smses"
    /\ LET a == ap[p]
           c == objs[a.conf]
       IN  \E n \in a.todo :
             /\ regSMSes' = MapRead(regSMSes, n)
             /\ LET provider == GetSMS(n) IN
                IF provider = NoProvider
                THEN /\ ap' = [ap EXCEPT ![p] =
                                 IF OnMissing(c.IgnoreNotSupportedProvider) = "continue"
                                 THEN Advance([a EXCEPT !.todo = a.todo \ {n}], c)
                                 ELSE Returned(a, "noprovider", StatusOf(p, "noprovider"))]
                     /\ UNCHANGED <<loaded, lastLoadOk>>
                ELSE /\ loaded' = Load(provider, c.SMSes[n])[1]
                     /\ lastLoadOk' = Load(provider, c.SMSes[n])[2]
                     /\ ap' = [ap EXCEPT ![p] =
                                 IF OnLoad(LoadFails(c.SMSes[n])) = "return"
                                 THEN Returned(a, "loaderr", StatusOf(p, "loaderr"))
                                 ELSE Advance([a EXCEPT !.todo = a.todo \ {n},
                                                        !._smses = Put(a._smses, n, provider)],
                                              c)]
    /\ UNCHANGED <<regEmails, phase, lastReg, objs, config, nCalls, rq, provVars, dp, configLocker>>

\* conf.emails = _emails
ResetConfigStoreEmails(p) ==
    /\ phase = "serving"
    /\ ap[p].pc = "l97"
    /\ objs' = [objs EXCEPT ![ap[p].conf].emails = ap[p]._emails]
    /\ ap' = [ap EXCEPT ![p].pc = "l98"]
    /\ UNCHANGED <<regVars, provVars, dp, configLocker, config, loaded, lastLoadOk, nCalls, rq>>

\* conf.smses = _smses
ResetConfigStoreSMSes(p) ==
    /\ phase = "serving"
    /\ ap[p].pc = "l98"
    /\ objs' = [objs EXCEPT ![ap[p].conf].smses = ap[p]._smses]
    /\ ap' = [ap EXCEPT ![p].pc = "l99"]
    /\ UNCHANGED <<regVars, provVars, dp, configLocker, config, loaded, lastLoadOk, nCalls, rq>>

\* configLocker.Lock(); config = conf; configLocker.Unlock(); return nil
ResetConfigPublish(p) ==
    /\ phase = "serving"
    /\ ap[p].pc = "l99"
    /\ config' = ap[p].conf
    /\ ap' = [ap EXCEPT ![p] = Returned(ap[p], "ok", StatusOf(p, "ok"))]
    /\ UNCHANGED <<regVars, provVars, dp, configLocker, objs, loaded, lastLoadOk, nCalls, rq>>

\* the addresses of the Configs the program still refers to: the one given to
\* Start (the embedding program keeps it), the active one, those of the calls
\* of ResetConfig in flight (a) and those the request in flight (r) has read
Roots(c, a, r) == {1, c} \cup {a[p].conf : p \in ApplyProcs} \cup {r._config, r._config2}

\* the heap once the Configs no reference leads to are dropped (addresses are
\* not used again)
Collect(heap, roots) ==
    [i \in 1 .. Len(heap) |-> IF i \in roots THEN heap[i] ELSE "collected"]

\* the caller goes on after the call (the handler after its response); its
\* reference to the Config of the call is gone
Finish(p) ==
    /\ phase = "serving"
    /\ ap[p].pc = "done"
    /\ ap' = [ap EXCEPT ![p] = IdleCall]
    /\ objs' = Collect(objs, Roots(config, ap', rq))
    /\ UNCHANGED <<regVars, provVars, dp, configLocker, config, loaded, lastLoadOk, nCalls, rq>>

----------------------------------------------------------------------------
(* The callers of ResetConfig *)

\* An embedding program calls ResetConfig(conf): with a Config it has just
\* built (NewDefaultConfig with the key the service was started with, public
\* fields set), or with the Config it gave to Start (address 1) after putting
\* new provider entries into its Emails and SMSes, or with nil.
LibResetConfig(limit) ==
    /\ phase = "serving"
    /\ ap["lib"].pc = "idle"
    /\ \/ \E s \in Settings :
            /\ nCalls < 1 + limit
            /\ objs' = Append(objs, WithSettings(NewDefaultConfig(objs[1].key), s))
            /\ EnterResetConfig("lib", ap["lib"], Len(objs) + 1, objs')
       \/ \E s \in Settings :
            /\ nCalls < 1 + limit
            /\ objs' = [objs EXCEPT ![1].Emails = s.Emails, ![1].SMSes = s.SMSes]
            /\ EnterResetConfig("lib", ap["lib"], 1, objs')
       \/ /\ ap' = [ap EXCEPT !["lib"] = Returned(ap["lib"], "ok", 0)]
          /\ UNCHANGED <<objs, nCalls>>
    /\ UNCHANGED <<regVars, provVars, dp, configLocker, config, loaded, lastLoadOk, rq>>

\* the keys a document posted to /v1/config may carry: none (or one that is
\* no string), the secret, another string
DocKeys == {Nil, "k", "wrong"}

\* a check that lets a document without key through
CheckKeyMismatchOnly(activeKey, docKey) ==
    IF activeKey # "" /\ docKey # Nil /\ activeKey # docKey THEN 403 ELSE 0

\* a check that only asks for a key to be present
CheckKeyPresentOnly(activeKey, docKey) ==
    IF activeKey # "" /\ docKey = Nil THEN 401 ELSE 0

\* the check of the "key" of a posted document against _config.key: the status
\* that rejects the request, 0 when the request goes on
CheckKey(activeKey, docKey) ==
    IF activeKey # ""
    THEN IF docKey = Nil THEN 401
         ELSE IF activeKey # docKey THEN 403
         ELSE 0
    ELSE 0

\* The handler of /v1/config up to its call of ResetConfig: _config is read
\* under the lock; GET answers the configuration; any method but GET and POST
\* is answered 405; a POST whose body cannot be read or is no JSON object is
\* answered 400 (docKey is then the key written in the text that failed to
\* decode); then the key is checked; then parseConfig either rejects the
\* types of the document's fields (400) or builds the Config for ResetConfig.
resetConfig(limit) ==
    /\ phase = "serving"
    /\ ap["http"].pc = "idle"
    /\ LET _config == objs[config]
           answer(a, status) ==
               /\ ap' = [ap EXCEPT !["http"] = Returned(a, Nil, status)]
               /\ UNCHANGED <<objs, nCalls>>
       IN
       \/ answer([ap["http"] EXCEPT !.Method = "GET"], 200)
       \/ answer([ap["http"] EXCEPT !.Method = "PUT"], 405)
       \/ answer([ap["http"] EXCEPT !.Method = "POST", !.body = "unreadable"], 400)
       \/ \E docKey \in DocKeys :
            answer([ap["http"] EXCEPT !.Method = "POST", !.body = "notjson",
                                      !.docKey = docKey], 400)
       \/ \E docKey \in DocKeys :
            LET a == [ap["http"] EXCEPT !.Method = "POST", !.body = "ok",
                                        !.docKey = docKey]
            IN  IF CheckKey(_config.key, docKey) # 0
                THEN answer(a, CheckKey(_config.key, docKey))
                ELSE \/ answer(a, 400)
                     \/ \E s \in Settings :
                          /\ nCalls < 1 + limit
                          /\ objs' = Append(objs, parseConfig(s, docKey))
                          /\ EnterResetConfig("http", a, Len(objs) + 1, objs')
    /\ UNCHANGED <<regVars, provVars, dp, configLocker, config, loaded, lastLoadOk, rq>>

----------------------------------------------------------------------------
(* The send handlers: sendEmail and sendSMS *)

\* the selectors a request may carry in "provider"
Selectors == {"", "plain", "alt", "all", "nx"}

\* a request that has not arrived
IdleRequest ==
    [pc |-> "idle", isEmail |-> FALSE, _config |-> 0, seen |-> Nil,
     Method |-> Nil, body |-> Nil, ProviderIn |-> Nil, Provider |-> Nil,
     To |-> Nil, Subject |-> Nil, Phone |-> Nil, RetryIn |-> 0, Retry |-> 0,
     ok |-> FALSE, _config2 |-> 0, list |-> <<>>, found |-> FALSE, attempts |-> <<>>,
     err |-> 0, status |-> 0, panicked |-> FALSE]

\* the arguments of a request: email requests carry to and subject, SMS
\* requests carry phone (the other category's fields are never read); a body
\* that cannot be read or parsed carries no arguments. The body of a request
\* whose method is neither POST nor GET is never read, and validation never
\* compares the retry count with the other fields: such requests come with a
\* few payloads only, and a request that lacks a field comes with retry 0.
RequestArgs(isEmail) ==
    { in \in [Method : {"POST", "GET", "PUT"}, body : {"ok", "unreadable", "malformed"},
              Provider : Selectors, To : {"", "t"}, Subject : {"", "s"},
              Phone : {"", "p"}, Retry : -1 .. MaxRetry] :
        /\ in.body = "unreadable" => in.Method = "POST"
        /\ in.Method = "PUT" => in.body = "ok"
        /\ in.body # "ok" => /\ in.Provider = "" /\ in.Retry = 0
                             /\ in.To = "" /\ in.Subject = "" /\ in.Phone = ""
        /\ in.body = "ok" =>
              IF isEmail THEN in.Phone = "" /\ ~(in.To = "" /\ in.Subject = "")
                         ELSE in.To = "" /\ in.Subject = ""
        /\ in.Method = "PUT" =>
              /\ in.Provider \in {"", "all"} /\ in.Retry = 0
              /\ isEmail => in.Subject = "s"
        /\ ( IF isEmail THEN in.To = "" \/ in.Subject = "" ELSE in.Phone = "" ) =>
              in.Retry = 0 }

\* Request.validate: the error it returns ("" for nil)
validate(Provider) == IF Provider = "" THEN "the provider is empty" ELSE ""

\* a validate that leaves a negative retry count as it is
ClampRetryKeeping(Retry) == Retry

\* the retry count validate leaves in the request
ClampRetry(Retry) == IF Retry < 0 THEN 0 ELSE Retry

\* a validateEmail that does not look at "to"
validateEmailWithoutTo(Provider, To, Subject) ==
    IF validate(Provider) # "" THEN validate(Provider)
    ELSE IF Subject = "" THEN "the subject is empty"
    ELSE ""

\* Request.validateEmail
validateEmail(Provider, To, Subject) ==
    IF validate(Provider) # "" THEN validate(Provider)
    ELSE IF To = "" THEN "the to is empty"
    ELSE IF Subject = "" THEN "the subject is empty"
    ELSE ""

\* Request.validateSMS
validateSMS(Provider, Phone) ==
    IF validate(Provider) # "" THEN validate(Provider)
    ELSE IF Phone = "" THEN "the phone is empty"
    ELSE ""

\* a substitution that puts the default in place of any selector
SubstituteDefaultAlways(isEmail, c, Provider) ==
    IF isEmail
    THEN (IF c.DefaultEmailProvider # "" THEN c.DefaultEmailProvider
          ELSE defaultEmailProvider)
    ELSE (IF c.DefaultSMSProvider # "" THEN c.DefaultSMSProvider
          ELSE defaultSMSProvider)

\* the provider name handleRequestArgs leaves in args.Provider
SubstituteDefault(isEmail, c, Provider) ==
    IF Provider # "" THEN Provider
    ELSE IF isEmail
         THEN (IF c.DefaultEmailProvider # "" THEN c.DefaultEmailProvider
               ELSE defaultEmailProvider)
         ELSE (IF c.DefaultSMSProvider # "" THEN c.DefaultSMSProvider
               ELSE defaultSMSProvider)

\* a category check that always finds a provider
EnabledAlways(isEmail, c) == TRUE

\* ok: whether the Config c has a provider of the request's category
Enabled(isEmail, c) ==
    IF isEmail THEN Cardinality(DOMAIN c.emails) > 0 ELSE Cardinality(DOMAIN c.smses) > 0

\* a handleRequestArgs that takes the GET branch whatever AllowGet says
RejectStatusAllowingGet(isEmail, c, in) ==
    IF ~Enabled(isEmail, c) THEN 501
    ELSE IF in.Method = "POST" /\ in.body = "unreadable" THEN 500
    ELSE IF in.Method \in {"POST", "GET"} /\ in.body = "malformed" THEN 400
    ELSE IF in.Method \notin {"POST", "GET"} THEN 405
    ELSE IF isEmail
         THEN (IF validateEmail(SubstituteDefault(isEmail, c, in.Provider),
                                in.To, in.Subject) # "" THEN 400 ELSE 0)
         ELSE (IF validateSMS(SubstituteDefault(isEmail, c, in.Provider),
                              in.Phone) # "" THEN 400 ELSE 0)

\* the status with which handleRequestArgs rejects the arguments in, read
\* against the Config c; 0 when it returns the arguments
RejectStatus(isEmail, c, in) ==
    IF ~Enabled(isEmail, c) THEN 501
    ELSE IF in.Method = "POST" /\ in.body = "unreadable" THEN 500
    ELSE IF in.Method = "POST" /\ in.body = "malformed" THEN 400
    ELSE IF in.Method = "GET" /\ c.AllowGet /\ in.body = "malformed" THEN 400
    ELSE IF ~(in.Method = "POST" \/ (c.AllowGet /\ in.Method = "GET")) THEN 405
    ELSE IF isEmail
         THEN (IF validateEmail(SubstituteDefault(isEmail, c, in.Provider),
                                in.To, in.Subject) # "" THEN 400 ELSE 0)
         ELSE (IF validateSMS(SubstituteDefault(isEmail, c, in.Provider),
                              in.Phone) # "" THEN 400 ELSE 0)

\* a request arrives and handleRequestArgs reads config under the lock
\* (seen keeps the snapshot that was active at that moment)
handleRequestArgsLock(isEmail) ==
    /\ phase = "serving"
    /\ rq.pc = "idle"
    /\ rq' = [IdleRequest EXCEPT !.pc = "h338", !.isEmail = isEmail,
                                 !._config = config, !.seen = Snapshot(objs[config])]
    /\ UNCHANGED <<regVars, provVars, dp, configLocker, confVars>>

\* the rest of handleRequestArgs, on the arguments the request carries
handleRequestArgs(isEmail) ==
    /\ phase = "serving"
    /\ rq.pc = "h338"
    /\ rq.isEmail = isEmail
    /\ \E in \in RequestArgs(isEmail) :
         LET c == objs[rq._config]
             r == [rq EXCEPT !.ok = Enabled(isEmail, c),
                             !.Method = in.Method, !.body = in.body,
                             !.ProviderIn = in.Provider, !.To = in.To,
                             !.Subject = in.Subject, !.Phone = in.Phone,
                             !.RetryIn = in.Retry]
         IN  IF RejectStatus(isEmail, c, in) # 0
             THEN rq' = [r EXCEPT !.pc = "done", !.status = RejectStatus(isEmail, c, in)]
             ELSE rq' = [r EXCEPT !.pc = "g71",
                                  !.Provider = SubstituteDefault(isEmail, c, in.Provider),
                                  !.Retry = ClampRetry(in.Retry)]
    /\ UNCHANGED <<regVars, provVars, dp, configLocker, confVars>>

\* getEmail / getSMS: config is read under the lock
getProviderLock(isEmail) ==
    /\ phase = "serving"
    /\ rq.pc = "g71"
    /\ rq.isEmail = isEmail
    /\ rq' = [rq EXCEPT !.pc = "g75", !._config2 = config]
    /\ UNCHANGED <<regVars, provVars, dp, configLocker, confVars>>

RECURSIVE Orders(_)
\* the sequences in which a range over a Go map may visit the values of m
Orders(m) ==
    IF DOMAIN m = {} THEN {<<>>}
    ELSE UNION { { <<m[n]>> \o t : t \in Orders([k \in DOMAIN m \ {n} |-> m[k]]) }
                 : n \in DOMAIN m }

\* a lookup that answers a name with any provider of the map
LookupAnyProvider(m, name) ==
    IF name = "all" THEN { <<TRUE, o>> : o \in Orders(m) }
    ELSE IF DOMAIN m # {} THEN { <<TRUE, <<m[n]>> >> : n \in DOMAIN m }
    ELSE { <<FALSE, <<>> >> }

\* a lookup that lists every provider twice for "all"
LookupAllTwice(m, name) ==
    IF name = "all" THEN { <<TRUE, o \o o>> : o \in Orders(m) }
    ELSE IF name \in DOMAIN m THEN { <<TRUE, <<m[name]>> >> }
    ELSE { <<FALSE, <<>> >> }

\* the slices getEmail / getSMS may return for name from the map m, as
\* <<found, list>>; found is FALSE for the nil slice
Lookup(m, name) ==
    IF name = "all" THEN { <<TRUE, o>> : o \in Orders(m) }
    ELSE IF name \in DOMAIN m THEN { <<TRUE, <<m[name]>> >> }
    ELSE { <<FALSE, <<>> >> }

\* the rest of getEmail / getSMS, and the check of its result by the handler
getProvider(isEmail) ==
    /\ phase = "serving"
    /\ rq.pc = "g75"
    /\ rq.isEmail = isEmail
    /\ LET c == objs[rq._config2] IN
       \E l \in Lookup(IF isEmail THEN c.emails ELSE c.smses, rq.Provider) :
         IF ~l[1]
         THEN rq' = [rq EXCEPT !.pc = "done", !.status = 400]
         ELSE rq' = [rq EXCEPT !.pc = IF rq.Provider = "all" THEN "all" ELSE "single",
                               !.found = TRUE, !.list = l[2]]
    /\ UNCHANGED <<regVars, provVars, dp, configLocker, confVars>>

\* a handler that answers 200 whatever the error
FinalStatusAlwaysOK(err) == 200

\* the status the handler answers after its attempts: 500 with the last error, or
\* the implicit 200 when err is nil
FinalStatus(err) == IF err # 0 THEN 500 ELSE 200

\* a loop that tries every provider, whatever Send returned
LoopNeverReturns(ok) == TRUE

\* whether the loop over the providers goes on after a Send: it returns at
\* the first Send whose error is nil
LoopGoesOn(ok) == ~ok

\* one iteration of the loop over the providers of an "all" request; err is the
\* number of the attempt whose error it holds (0: nil)
sendAll(isEmail) ==
    /\ phase = "serving"
    /\ rq.pc = "all"
    /\ rq.isEmail = isEmail
    /\ LET i == Len(rq.attempts) + 1 IN
       IF i > Len(rq.list)
       THEN rq' = [rq EXCEPT !.pc = "done", !.status = FinalStatus(rq.err)]
       ELSE \E ok \in BOOLEAN :
              LET att == Append(rq.attempts, [inst |-> rq.list[i], ok |-> ok]) IN
              IF LoopGoesOn(ok)
              THEN rq' = [rq EXCEPT !.attempts = att, !.err = IF ok THEN 0 ELSE i]
              ELSE rq' = [rq EXCEPT !.pc = "done", !.attempts = att, !.err = 0,
                                    !.status = 200]
    /\ UNCHANGED <<regVars, provVars, dp, configLocker, confVars>>

\* the branch for a single named provider:
\*   else if args.Retry >= 0 { if err = Send(...); err == nil { return }; args.Retry-- }
\* one Send, then the common end of the handler
sendSingle(isEmail) ==
    /\ phase = "serving"
    /\ rq.pc = "single"
    /\ rq.isEmail = isEmail
    /\ IF rq.Retry >= 0
       THEN \E ok \in BOOLEAN :
              LET att == Append(rq.attempts, [inst |-> rq.list[1], ok |-> ok]) IN
              IF ok
              THEN rq' = [rq EXCEPT !.pc = "done", !.attempts = att, !.status = 200]
              ELSE rq' = [rq EXCEPT !.pc = "done", !.attempts = att,
                                    !.err = Len(att), !.Retry = rq.Retry - 1,
                                    !.status = FinalStatus(Len(att))]
       ELSE rq' = [rq EXCEPT !.pc = "done", !.status = FinalStatus(rq.err)]
    /\ UNCHANGED <<regVars, provVars, dp, configLocker, confVars>>

\* a handler without the deferred recover: the panic leaves the handler and
\* net/http closes the connection, no status written
recoverNothing(r) == [r EXCEPT !.pc = "done", !.panicked = TRUE]

\* the deferred function of sendEmail / sendSMS after a panic: recover()
\* returns the panic's value and the handler answers 500
recover(r) == [r EXCEPT !.pc = "done", !.panicked = TRUE, !.status = 500]

\* a provider's Send panics instead of returning: the call the handler was
\* about to make, in the "all" loop or in the single-provider branch, is its
\* last, and the deferred function runs
sendPanics(isEmail) ==
    /\ phase = "serving"
    /\ rq.isEmail = isEmail
    /\ \/ rq.pc = "all" /\ Len(rq.attempts) < Len(rq.list)
       \/ rq.pc = "single" /\ rq.Retry >= 0
    /\ rq' = recover([rq EXCEPT !.attempts =
                 Append(rq.attempts, [inst |-> rq.list[Len(rq.attempts) + 1],
                                      ok |-> FALSE])])
    /\ UNCHANGED <<regVars, provVars, dp, configLocker, confVars>>

\* the response is out; the next request may arrive
respond ==
    /\ phase = "serving"
    /\ rq.pc = "done"
    /\ rq' = IdleRequest
    /\ objs' = Collect(objs, Roots(config, ap, rq'))
    /\ UNCHANGED <<regVars, provVars, dp, configLocker, config, loaded, lastLoadOk, nCalls, ap>>

sendEmail ==
    \/ handleRequestArgsLock(TRUE)
    \/ handleRequestArgs(TRUE)
    \/ getProviderLock(TRUE)
    \/ getProvider(TRUE)
    \/ sendAll(TRUE)
    \/ sendSingle(TRUE)
    \/ sendPanics(TRUE)

sendSMS ==
    \/ handleRequestArgsLock(FALSE)
    \/ handleRequestArgs(FALSE)
    \/ getProviderLock(FALSE)
    \/ getProvider(FALSE)
    \/ sendAll(FALSE)
    \/ sendSingle(FALSE)
    \/ sendPanics(FALSE)

----------------------------------------------------------------------------
(* configLocker: who holds it, and where each goroutine stands *)

\* the goroutines that use configLocker: the two callers of ResetConfig and a
\* send request
LockProcs == ApplyProcs \cup {"req"}

\* a ResetConfig that takes the lock before it loads the providers
ProgramLockingLoads(p) ==
    IF p = "lib" THEN <<"Lock", "Load", "swap", "Unlock">>
    ELSE IF p = "http" THEN <<"Lock", "read", "Unlock",
                              "Lock", "Load", "swap", "Unlock">>
    ELSE <<"Lock", "read", "Unlock", "Lock", "read", "Unlock", "Send">>

\* the statements of each goroutine that touch configLocker or call a
\* provider, in program order:
\*   ResetConfig   the Loads of the two loops, then Lock; config = conf; Unlock
\*   resetConfig   Lock; _config := config; Unlock, then ResetConfig
\*   a request     handleRequestArgs: Lock; _config := config; Unlock,
\*                 getEmail / getSMS: the same, then the Sends
Program(p) ==
    IF p = "lib" THEN <<"Load", "Lock", "swap", "Unlock">>
    ELSE IF p = "http" THEN <<"Lock", "read", "Unlock",
                              "Load", "Lock", "swap", "Unlock">>
    ELSE <<"Lock", "read", "Unlock", "Lock", "read", "Unlock", "Send">>

\* nobody holds the lock, every goroutine is idle (at 0)
FreeLock == [holder |-> Nil, at |-> [p \in LockProcs |-> 0]]

\* the statement goroutine p is at: the one it executes next, or the provider
\* call it is in
StatementOf(p) ==
    IF configLocker.at[p] = 0 THEN "idle" ELSE Program(p)[configLocker.at[p]]

\* goroutine p executes the statement it is at: Lock waits for the lock to be
\* free; a provider call returns (nothing makes it: it may block forever)
lockStep(p) ==
    /\ phase = "serving"
    /\ LET i == configLocker.at[p]
           next == IF i = Len(Program(p)) THEN 0 ELSE i + 1
       IN
       /\ StatementOf(p) = "Lock" => configLocker.holder = Nil
       /\ configLocker' =
             [holder |-> IF StatementOf(p) = "Lock" THEN p
                         ELSE IF StatementOf(p) = "Unlock" THEN Nil
                         ELSE configLocker.holder,
              at |-> [configLocker.at EXCEPT ![p] = next]]
    /\ UNCHANGED <<regVars, provVars, dp, confVars, rq>>

----------------------------------------------------------------------------
(* plainEmail.Load on its options: host, port, username, password, from *)

\* the value of a decimal digit; a text is a sequence of characters
DigitValue == ( "0" :> 0 @@ "1" :> 1 @@ "2" :> 2 @@ "3" :> 3 @@ "4" :> 4 @@
                "5" :> 5 @@ "6" :> 6 @@ "7" :> 7 @@ "8" :> 8 @@ "9" :> 9 )

RECURSIVE ParseUint(_)
\* strconv.ParseUint(s, 10, 64) of a short text: the number its digits
\* write, -1 (a syntax error) for the empty text or a character that is no
\* digit
ParseUint(s) ==
    IF s = <<>> THEN -1
    ELSE LET last == s[Len(s)]
             front == SubSeq(s, 1, Len(s) - 1)
         IN  IF last \notin DOMAIN DigitValue THEN -1
             ELSE IF front = <<>> THEN DigitValue[last]
             ELSE IF ParseUint(front) = -1 THEN -1
             ELSE 10 * ParseUint(front) + DigitValue[last]

\* a ParseInt that does not check the range of bitSize
ParseIntAnySize(s, bitSize) ==
    LET neg == s # <<>> /\ s[1] = "-"
        digits == IF s # <<>> /\ s[1] \in {"+", "-"} THEN Tail(s) ELSE s
        un == ParseUint(digits)
    IN  IF un = -1 THEN [err |-> "syntax", val |-> 0]
        ELSE [err |-> "", val |-> IF neg THEN 0 - un ELSE un]

\* strconv.ParseInt(s, 10, bitSize): an optional sign, then ParseUint of the
\* rest; a value outside -2^(bitSize-1) .. 2^(bitSize-1) - 1 is a range error
ParseInt(s, bitSize) ==
    LET neg == s # <<>> /\ s[1] = "-"
        digits == IF s # <<>> /\ s[1] \in {"+", "-"} THEN Tail(s) ELSE s
        un == ParseUint(digits)
        cutoff == 2 ^ (bitSize - 1)
    IN  IF un = -1 THEN [err |-> "syntax", val |-> 0]
        ELSE IF ~neg /\ un >= cutoff THEN [err |-> "range", val |-> cutoff - 1]
        ELSE IF neg /\ un > cutoff THEN [err |-> "range", val |-> 0 - cutoff]
        ELSE [err |-> "", val |-> IF neg THEN 0 - un ELSE un]

RECURSIVE Itoa(_)
\* the %d of fmt.Sprintf: the decimal text of an integer
Itoa(n) ==
    IF n < 0 THEN <<"-">> \o Itoa(0 - n)
    ELSE LET d == CHOOSE c \in DOMAIN DigitValue : DigitValue[c] = n % 10
         IN  IF n < 10 THEN <<d>> ELSE Append(Itoa(n \div 10), d)

\* the texts a configuration may give as port
PortTexts ==
    { <<"2", "5">>, <<"8", "0">>, <<"+", "8", "0">>, <<"0">>,
      <<"3", "2", "7", "6", "7">>, <<"3", "2", "7", "6", "8">>,
      <<"6", "5", "5", "3", "5">>, <<"-", "1">>,
      <<"-", "3", "2", "7", "6", "8">>, <<"-", "3", "2", "7", "6", "9">>,
      <<"8", "0", "a">>, <<"-">>, <<>> }

\* the options Load reads
PlainKeys == {"host", "port", "username", "password", "from"}

\* the texts a configuration gives as host
HostTexts == { <<"h", "1">>, <<"h", "2">> }

\* the maps Load is called with: any of the options may be absent
PlainOptions ==
    { [k \in K |-> full[k]] :
        K \in SUBSET PlainKeys,
        full \in [host : HostTexts, port : PortTexts, username : {<<"u">>},
                  password : {<<"p", "w">>}, from : {<<"f">>}] }

\* new(plainEmail): no address, no auth, no sender
NewPlainEmail == [addr |-> <<>>, auth |-> <<>>, from |-> <<>>, mu |-> Nil]

\* the error Load returns before it takes the lock ("" for none), the options
\* being checked in the order host, port, username, password, from
plainLoadError(m) ==
    IF "host" \notin DOMAIN m THEN "no the host configuration"
    ELSE IF "port" \in DOMAIN m /\ ParseInt(m["port"], 16).err # ""
         THEN ParseInt(m["port"], 16).err
    ELSE IF "username" \notin DOMAIN m THEN "no the username configuration"
    ELSE IF "password" \notin DOMAIN m THEN "no the password configuration"
    ELSE IF "from" \notin DOMAIN m THEN "no the from configuration"
    ELSE ""

\* the port Load formats into the address: 25 unless the options give one
plainPort(m) == IF "port" \in DOMAIN m THEN ParseInt(m["port"], 16).val ELSE 25

\* one call of Load(m) by caller p, from its first statement to its return:
\* an error leaves the instance alone; otherwise addr, auth and from are
\* assigned under the lock. ld keeps the call's argument and result.
plainLoad(p) ==
    /\ phase = "serving"
    /\ pe.mu = Nil
    /\ \E m \in PlainOptions :
         /\ ld' = [ld EXCEPT ![p] = [pc |-> "idle", m |-> m,
                                     err |-> plainLoadError(m) # ""]]
         /\ IF plainLoadError(m) # ""
            THEN pe' = pe
            ELSE pe' = [addr |-> m["host"] \o <<":">> \o Itoa(plainPort(m)),
                        auth |-> << <<>>, m["username"], m["password"], m["host"] >>,
                        from |-> m["from"], mu |-> Nil]
    /\ UNCHANGED <<regVars, confVars, rq, sd, dp, configLocker>>

----------------------------------------------------------------------------
(* Initial states *)

\* the registry once start-up is over: the built-in "plain" email provider, a
\* second email plugin and one SMS plugin
ServingEmails == ("plain" :> 1 @@ "alt" :> 2)
ServingSMSes  == ("plain" :> 3)

\* the entries of a draft map that ResetConfig resolves, each to the instance
\* registered under its name
Resolved(draft, reg) == [n \in DOMAIN draft \cap DOMAIN reg |-> reg[n]]

\* the Config that Start(c) has published: ResetConfig's first call
Started(key, s) ==
    [WithSettings(NewDefaultConfig(key), s) EXCEPT
        !.emails = Resolved(s.Emails, ServingEmails),
        !.smses = Resolved(s.SMSes, ServingSMSes)]

\* Two "all" dispatches against one snapshot

\* a dispatch that has not resolved its providers
IdleDispatch == [pc |-> "idle", list |-> <<>>, attempts |-> <<>>, err |-> 0, status |-> 0]

\* no dispatch under way: an empty snapshot, no failing provider
NoDispatch == [m |-> EmptyMap, fails |-> {}, d |-> [i \in {1, 2} |-> IdleDispatch]]

\* the resolved maps a snapshot may hold for a category
SnapshotMaps ==
    { Resolved(st.Emails, ServingEmails) : st \in Settings }
    \cup { Resolved(st.SMSes, ServingSMSes) : st \in Settings }

\* getEmail("all") / getSMS("all") for dispatch i, on the map dp.m
dispatchResolve(i) ==
    /\ phase = "serving"
    /\ dp.d[i].pc = "idle"
    /\ \E l \in Lookup(dp.m, "all") :
         dp' = [dp EXCEPT !.d[i].pc = "all", !.d[i].list = l[2]]
    /\ UNCHANGED <<regVars, confVars, rq, provVars, configLocker>>

\* one iteration of the loop over the providers for dispatch i; the Send of
\* a provider fails when the provider is in dp.fails
dispatchSend(i) ==
    /\ phase = "serving"
    /\ dp.d[i].pc = "all"
    /\ LET r == dp.d[i]
           k == Len(r.attempts) + 1
       IN  IF k > Len(r.list)
           THEN dp' = [dp EXCEPT !.d[i].pc = "done", !.d[i].status = FinalStatus(r.err)]
           ELSE LET ok == r.list[k] \notin dp.fails
                    att == Append(r.attempts, [inst |-> r.list[k], ok |-> ok])
                IN  IF LoopGoesOn(ok)
                    THEN dp' = [dp EXCEPT !.d[i].attempts = att,
                                          !.d[i].err = IF ok THEN 0 ELSE k]
                    ELSE dp' = [dp EXCEPT !.d[i].pc = "done", !.d[i].attempts = att,
                                          !.d[i].err = 0, !.d[i].status = 200]
    /\ UNCHANGED <<regVars, confVars, rq, provVars, configLocker>>

\* the service after Start: the registry is filled, Start's Config is active and
\* its providers have loaded their entries
InitServing(keys) ==
    /\ regEmails = ServingEmails
    /\ regSMSes = ServingSMSes
    /\ phase = "serving"
    /\ lastReg = NoRegistration
    /\ \E key \in keys, s \in StartSettings :
         /\ objs = <<Started(key, s)>>
         /\ loaded = [i \in Insts |->
                         IF \E n \in DOMAIN s.Emails : ServingEmails[n] = i
                         THEN s.Emails[CHOOSE n \in DOMAIN s.Emails : ServingEmails[n] = i]
                         ELSE IF \E n \in DOMAIN s.SMSes : ServingSMSes[n] = i
                         THEN s.SMSes[CHOOSE n \in DOMAIN s.SMSes : ServingSMSes[n] = i]
                         ELSE Nil]
         /\ lastLoadOk = [i \in Insts |-> TRUE]
         /\ pe = PlainAfterLoad(IF "plain" \in DOMAIN s.Emails THEN s.Emails["plain"]
                                                               ELSE Nil)
    /\ config = 1
    /\ nCalls = 1
    /\ ap = [p \in ApplyProcs |-> IdleCall]
    /\ rq = IdleRequest
    /\ ld = [p \in ApplyProcs |-> IdleLoad]
    /\ sd = IdleSendEmail
    /\ configLocker = FreeLock

InitConfig == InitServing(AdminKeys) /\ dp = NoDispatch

\* send requests never read the admin key: they are served with none set
InitSend == InitServing({""}) /\ dp = NoDispatch

\* the plainEmail instance as Start's Load left it
InitProvider == InitServing({""}) /\ dp = NoDispatch

\* two dispatches are about to resolve "all" in the same snapshot, with the
\* same providers failing
InitOrder ==
    /\ InitServing({""})
    /\ \E m \in SnapshotMaps, fails \in SUBSET Insts :
         dp = [NoDispatch EXCEPT !.m = m, !.fails = fails]

\* start-up: nothing is registered yet and no Config exists
InitRegistry ==
    /\ regEmails = EmptyMap
    /\ regSMSes = EmptyMap
    /\ phase = "startup"
    /\ lastReg = NoRegistration
    /\ objs = <<>>
    /\ config = 0
    /\ loaded = [i \in Insts |-> Nil]
    /\ lastLoadOk = [i \in Insts |-> TRUE]
    /\ nCalls = 0
    /\ ap = [p \in ApplyProcs |-> IdleCall]
    /\ rq = IdleRequest
    /\ pe = PlainAfterLoad(Nil)
    /\ ld = [p \in ApplyProcs |-> IdleLoad]
    /\ sd = IdleSendEmail
    /\ dp = NoDispatch
    /\ configLocker = FreeLock

NextRegistry ==
    \/ \E name \in PluginNames, inst \in EmailInsts : RegisterEmail(name, inst)
    \/ \E name \in PluginNames, inst \in SMSInsts : RegisterSMS(name, inst)

SpecRegistry == InitRegistry /\ [][NextRegistry]_vars

NextConfig ==
    \/ LibResetConfig(MaxConfigCalls)
    \/ resetConfig(MaxConfigCalls)
    \/ \E p \in ApplyProcs : ResetConfigEmails(p)
    \/ \E p \in ApplyProcs : ResetConfigSMSes(p)
    \/ \E p \in ApplyProcs : ResetConfigStoreEmails(p)
    \/ \E p \in ApplyProcs : ResetConfigStoreSMSes(p)
    \/ \E p \in ApplyProcs : ResetConfigPublish(p)
    \/ \E p \in ApplyProcs : Finish(p)

SpecConfig == InitConfig /\ [][NextConfig]_vars

NextSend ==
    \/ sendEmail
    \/ sendSMS
    \/ respond
    \/ LibResetConfig(MaxSendCalls)
    \/ ResetConfigEmails("lib")
    \/ ResetConfigSMSes("lib")
    \/ ResetConfigStoreEmails("lib")
    \/ ResetConfigStoreSMSes("lib")
    \/ ResetConfigPublish("lib")
    \/ Finish("lib")

SpecSend == InitSend /\ [][NextSend]_vars

NextProvider ==
    \/ \E p \in ApplyProcs : plainLoadCall(p)
    \/ \E p \in ApplyProcs : plainLoadCheck(p)
    \/ \E p \in ApplyProcs : plainLoadLock(p)
    \/ \E p \in ApplyProcs : plainLoadAddr(p)
    \/ \E p \in ApplyProcs : plainLoadAuth(p)
    \/ \E p \in ApplyProcs : plainLoadFrom(p)
    \/ plainSendCall
    \/ plainSendFrom
    \/ plainSendAddr
    \/ plainSendAuth
    \/ plainSendReturn

SpecProvider == InitProvider /\ [][NextProvider]_vars

NextOrder ==
    \/ \E i \in {1, 2} : dispatchResolve(i)
    \/ \E i \in {1, 2} : dispatchSend(i)

SpecOrder == InitOrder /\ [][NextOrder]_vars

\* the service as Start left it, every goroutine idle
InitLock == InitServing({""}) /\ dp = NoDispatch

NextLock == \E p \in LockProcs : lockStep(p)

SpecLock == InitLock /\ [][NextLock]_vars

\* the plainEmail instance as init registered it, before any Load
InitPlainLoad ==
    /\ regEmails = ServingEmails
    /\ regSMSes = ServingSMSes
    /\ phase = "serving"
    /\ lastReg = NoRegistration
    /\ objs = <<NewDefaultConfig("")>>
    /\ config = 1
    /\ loaded = [i \in Insts |-> Nil]
    /\ lastLoadOk = [i \in Insts |-> TRUE]
    /\ nCalls = 0
    /\ ap = [p \in ApplyProcs |-> IdleCall]
    /\ rq = IdleRequest
    /\ pe = NewPlainEmail
    /\ ld = [p \in ApplyProcs |-> [IdleLoad EXCEPT !.m = EmptyMap]]
    /\ sd = IdleSendEmail
    /\ dp = NoDispatch
    /\ configLocker = FreeLock

NextPlainLoad == plainLoad("lib")

SpecPlainLoad == InitPlainLoad /\ [][NextPlainLoad]_vars

----------------------------------------------------------------------------
(* Properties of the registry (SpecRegistry) *)

\* C9: registering a name that its category already holds panics and leaves
\* every entry bound to the instance registered first; a name the category
\* does not hold yet is registered, whatever the other category holds.
C9_DuplicateRegistrationPanics ==
    [][ /\ \A n \in DOMAIN regEmails :
             n \in DOMAIN regEmails' /\ regEmails'[n] = regEmails[n]
        /\ \A n \in DOMAIN regSMSes :
             n \in DOMAIN regSMSes' /\ regSMSes'[n] = regSMSes[n]
        /\ lastReg' # lastReg =>
             LET old == IF lastReg'.cat = "email" THEN regEmails ELSE regSMSes
                 new == IF lastReg'.cat = "email" THEN regEmails' ELSE regSMSes'
             IN  IF lastReg'.name \in DOMAIN old
                 THEN lastReg'.panicked /\ phase' = "crashed" /\ new = old
                 ELSE /\ ~lastReg'.panicked /\ phase' = phase
                      /\ DOMAIN new = DOMAIN old \cup {lastReg'.name}
                      /\ new[lastReg'.name] = lastReg'.inst
      ]_vars

\* a second registration of "plain" as an email provider has panicked, while
\* "plain" is registered in both categories
C9_Witness ==
    /\ phase = "crashed"
    /\ lastReg.panicked /\ lastReg.cat = "email" /\ lastReg.name = "plain"
    /\ "plain" \in DOMAIN regEmails /\ "plain" \in DOMAIN regSMSes
    /\ regEmails["plain"] # lastReg.inst

----------------------------------------------------------------------------
(* Properties of the configuration swap (SpecConfig) *)

\* the snapshot the call of caller a is building: the flags of its Config
\* with the maps it has resolved
Building(a) ==
    [Snapshot(objs[a.conf]) EXCEPT !.emails = a._emails, !.smses = a._smses]

\* C4: the active configuration only ever changes from one complete snapshot
\* to another: every step that changes what a read of config sees installs,
\* whole, the flags and both resolved maps of one ResetConfig call.
C4_ActiveSnapshotChangesWhole ==
    [][ Snapshot(objs'[config']) # Snapshot(objs[config]) =>
          \E p \in ApplyProcs :
             /\ ap[p].pc \in {"l97", "l98", "l99"}
             /\ ap[p].conf = config'
             /\ Snapshot(objs'[config']) = Building(ap[p])
      ]_vars

\* whether the draft of Config c holds an entry whose Load fails
HasFailingLoad(c) ==
    \/ \E n \in DOMAIN c.Emails : GetEmail(n) # NoProvider /\ LoadFails(c.Emails[n])
    \/ \E n \in DOMAIN c.SMSes : GetSMS(n) # NoProvider /\ LoadFails(c.SMSes[n])

\* C5: a ResetConfig call on a draft with an entry whose Load fails never
\* stores or publishes anything: each of its steps leaves the active snapshot
\* as it is, and the call returns an error.
C5_FailedLoadKeepsSnapshot ==
    [][ \A p \in ApplyProcs :
          ( /\ ap[p].pc \in {"emails", "smses"}
            /\ HasFailingLoad(objs[ap[p].conf])
            /\ ap'[p] # ap[p] ) =>
          /\ config' = config
          /\ Snapshot(objs'[config']) = Snapshot(objs[config])
          /\ ap'[p].pc \in {"emails", "smses", "done"}
          /\ ap'[p].pc = "done" => ap'[p].res \in {"loaderr", "noprovider"}
      ]_vars

\* a call has returned the error of a failed Load
C5_Witness ==
    \E p \in ApplyProcs :
       /\ ap[p].pc = "done" /\ ap[p].res = "loaderr"
       /\ HasFailingLoad(objs[ap[p].conf])

\* C6: while the active configuration holds an admin key, a POST to
\* /v1/config whose document carries another key is answered 403 in the step
\* that reads it; that step changes no Config, not the active one, and no
\* provider (no Load runs).
C6_WrongKeyRejected ==
    [][ ( /\ ap["http"].pc = "idle" /\ ap'["http"].pc # "idle"
          /\ ap'["http"].Method = "POST" /\ ap'["http"].body = "ok"
          /\ objs[config].key # ""
          /\ ap'["http"].docKey \notin {Nil, objs[config].key} ) =>
        /\ ap'["http"].pc = "done" /\ ap'["http"].status = 403
        /\ UNCHANGED <<objs, config, loaded, lastLoadOk, nCalls>>
      ]_vars

\* a POST with a wrong key has been answered 403
C6_Witness ==
    /\ ap["http"].pc = "done" /\ ap["http"].status = 403
    /\ ap["http"].docKey = "wrong" /\ objs[config].key = "k"

\* C7: once the service is started with an admin key, a POST to /v1/config
\* succeeds only if its document carries that key.
C7_KeyRequirementNeverLapses ==
    ( /\ objs[1].key # ""
      /\ ap["http"].pc = "done" /\ ap["http"].Method = "POST"
      /\ ap["http"].res = "ok" ) =>
    ap["http"].docKey = objs[1].key

----------------------------------------------------------------------------
(* Properties of the send handlers (SpecSend) *)

\* the attempts of the request that returned an error
Failures == {i \in 1 .. Len(rq.attempts) : ~rq.attempts[i].ok}

\* C1: a request for a single named provider with retry N >= 0 makes no
\* attempt after a successful one and, when every Send fails (none panics),
\* makes exactly N + 1 attempts and answers the error of the last.
C1_RetryBudgetAttempts ==
    ( /\ rq.pc = "done" /\ rq.found /\ rq.Provider # "all" /\ rq.RetryIn >= 0
      /\ ~rq.panicked ) =>
    /\ \A i \in 1 .. Len(rq.attempts) : rq.attempts[i].ok => i = Len(rq.attempts)
    /\ Failures = 1 .. Len(rq.attempts) =>
         /\ Len(rq.attempts) = rq.RetryIn + 1
         /\ rq.status = 500 /\ rq.err = Len(rq.attempts)

\* C2: an "all" request tries the providers it resolved one at a time, in
\* order; a successful Send is the last attempt, the answer is then 200 and
\* the failures recorded are exactly the attempts before it.
C2_AllStopsAtFirstSuccess ==
    ( rq.found /\ rq.Provider = "all" ) =>
    /\ Len(rq.attempts) <= Len(rq.list)
    /\ \A i \in 1 .. Len(rq.attempts) :
         /\ rq.attempts[i].inst = rq.list[i]
         /\ rq.attempts[i].ok =>
              /\ i = Len(rq.attempts)
              /\ rq.pc = "done" /\ rq.status = 200
              /\ Failures = 1 .. (i - 1)

\* the first provider tried has failed, the second has succeeded: 200
C2_Witness ==
    /\ rq.pc = "done" /\ rq.Provider = "all" /\ rq.status = 200
    /\ Len(rq.attempts) = 2
    /\ ~rq.attempts[1].ok /\ rq.attempts[2].ok
    /\ Cardinality(Failures) = 1

\* C3: an "all" request whose Sends have all returned an error has tried each
\* provider it resolved exactly once, and answers 500 with the error of the
\* last.
C3_AllFailedTriesEach ==
    ( /\ rq.pc = "done" /\ rq.found /\ rq.Provider = "all" /\ ~rq.panicked
      /\ rq.attempts # <<>> /\ Failures = 1 .. Len(rq.attempts) ) =>
    /\ Len(rq.attempts) = Len(rq.list)
    /\ \A i \in 1 .. Len(rq.list) : rq.attempts[i].inst = rq.list[i]
    /\ \A i, j \in 1 .. Len(rq.list) : rq.list[i] = rq.list[j] => i = j
    /\ rq.status = 500 /\ rq.err = Len(rq.attempts)

\* both providers of an "all" request have failed: 500
C3_Witness ==
    /\ rq.pc = "done" /\ rq.Provider = "all" /\ rq.status = 500 /\ ~rq.panicked
    /\ Len(rq.list) = 2 /\ Len(rq.attempts) = 2
    /\ ~rq.attempts[1].ok /\ ~rq.attempts[2].ok

\* C8: a request captures the active snapshot once: the Config in which it
\* resolves its providers is the Config it read at its start, in which it
\* made the category check and the default substitution.
C8_SnapshotCapturedOnce ==
    ( rq.pc \in {"g75", "all", "single"} \/ rq.found ) => rq._config2 = rq._config

\* whether the request lacks a required field: to or subject (email), phone
\* (SMS), or a provider once the default is substituted
MissingField ==
    /\ rq.pc \notin {"idle", "h338"}
    /\ rq.body = "ok"
    /\ \/ rq.isEmail /\ (rq.To = "" \/ rq.Subject = "")
       \/ ~rq.isEmail /\ rq.Phone = ""
       \/ SubstituteDefault(rq.isEmail, rq.seen, rq.ProviderIn) = ""

\* whether handleRequestArgs accepts the method of the request
MethodAllowed == rq.Method = "POST" \/ (rq.seen.AllowGet /\ rq.Method = "GET")

\* C10, as claimed: a request that lacks a required field is answered 400 and
\* reaches no Send.
C10_MissingFieldIs400 ==
    MissingField => rq.pc = "done" /\ rq.status = 400 /\ rq.attempts = <<>>

\* C10, amended: a request that lacks a required field is rejected and
\* reaches no Send; the answer is 501 when its category has no provider, else
\* 405 when its method is not allowed, else the 400 of the validation.
C10_MissingFieldRejected ==
    MissingField =>
    /\ rq.pc = "done" /\ rq.attempts = <<>> /\ ~rq.found
    /\ rq.status = IF ~rq.ok THEN 501 ELSE IF ~MethodAllowed THEN 405 ELSE 400

\* an email request without "to" has been answered 400
C10_Witness ==
    /\ MissingField /\ rq.isEmail /\ rq.To = ""
    /\ rq.pc = "done" /\ rq.status = 400

----------------------------------------------------------------------------
(* Further properties of the configuration swap (SpecConfig) *)

\* the Loads a ResetConfig call on Config c makes, as <<instance, configuration>>
Drafted(c) ==
    { <<GetEmail(n), c.Emails[n]>> : n \in {m \in DOMAIN c.Emails : GetEmail(m) # NoProvider} }
    \cup
    { <<GetSMS(n), c.SMSes[n]>> : n \in {m \in DOMAIN c.SMSes : GetSMS(m) # NoProvider} }

\* whether the providers hold what the call on Config first followed by the
\* call on Config last leaves in them
LoadedAsAfter(first, last) ==
    /\ \A d \in Drafted(last) : loaded[d[1]] = d[2]
    /\ \A d \in Drafted(first) :
         (\A e \in Drafted(last) : e[1] # d[1]) => loaded[d[1]] = d[2]

\* C11: when the two ResetConfig calls made since Start have both returned
\* nil, the active Config is that of one of them, and each provider holds the
\* configuration that the other call followed by that one would have left.
C11_ConcurrentAppliesSerialize ==
    ( /\ nCalls = 3
      /\ \A p \in ApplyProcs :
           ap[p].pc = "done" /\ ap[p].res = "ok" /\ ap[p].conf # 0 ) =>
    \E w \in ApplyProcs :
       /\ config = ap[w].conf
       /\ \A l \in ApplyProcs \ {w} :
            LoadedAsAfter(objs[ap[l].conf], objs[ap[w].conf])

\* C12: every provider of the active Config's resolved maps has succeeded in
\* its most recent Load.
C12_ActiveProvidersLoaded ==
    /\ \A n \in DOMAIN objs[config].emails : lastLoadOk[objs[config].emails[n]]
    /\ \A n \in DOMAIN objs[config].smses : lastLoadOk[objs[config].smses[n]]

\* C13: as long as a Config stays the active one, what a reader sees through
\* it (flags, default names, resolved maps) does not change.
C13_PublishedSnapshotNeverEdited ==
    [][ config' = config => Snapshot(objs'[config]) = Snapshot(objs[config]) ]_vars

\* whether the draft of Config c names a provider that is not registered
HasUnknown(c) ==
    \/ \E n \in DOMAIN c.Emails : GetEmail(n) = NoProvider
    \/ \E n \in DOMAIN c.SMSes : GetSMS(n) = NoProvider

\* C18: a ResetConfig call on a draft that names an unregistered provider
\* and does not set IgnoreNotSupportedProvider never stores or publishes and
\* returns an error; no call ever resolves an unregistered name, and the
\* maps a call publishes hold exactly the registered names of its draft.
C18_UnknownProvider ==
    [][ \A p \in ApplyProcs :
          LET c == objs[ap[p].conf] IN
          /\ ( /\ ap[p].pc \in {"emails", "smses"} /\ ap'[p] # ap[p]
               /\ HasUnknown(c) /\ ~c.IgnoreNotSupportedProvider ) =>
              /\ config' = config
              /\ Snapshot(objs'[config']) = Snapshot(objs[config])
              /\ ap'[p].pc \in {"emails", "smses", "done"}
              /\ ap'[p].pc = "done" => ap'[p].res \in {"noprovider", "loaderr"}
          /\ ( ap[p].pc \in {"emails", "smses"} /\ ap'[p] # ap[p] ) =>
              /\ DOMAIN ap'[p]._emails \subseteq DOMAIN regEmails
              /\ DOMAIN ap'[p]._smses \subseteq DOMAIN regSMSes
          /\ ( ap[p].pc = "l99" /\ ap'[p].pc = "done" ) =>
              /\ ap'[p].res = "ok" /\ config' = ap[p].conf
              /\ objs'[config'].emails = Resolved(c.Emails, regEmails)
              /\ objs'[config'].smses = Resolved(c.SMSes, regSMSes)
      ]_vars

\* a call on a draft with the unregistered "nx", IgnoreNotSupportedProvider
\* set, has published: "plain" alone is resolved
C18_Witness ==
    \E p \in ApplyProcs :
       /\ ap[p].pc = "done" /\ ap[p].res = "ok" /\ config = ap[p].conf
       /\ objs[config].IgnoreNotSupportedProvider
       /\ "nx" \in DOMAIN objs[config].Emails
       /\ DOMAIN objs[config].emails = {"plain"}

----------------------------------------------------------------------------
(* Further properties of the send handlers (SpecSend) *)

\* the resolved map of the request's category in the Config getEmail / getSMS read
ResolvingMap ==
    IF rq.isEmail THEN objs[rq._config2].emails ELSE objs[rq._config2].smses

\* C15: a request for a name other than "all" resolves to the one provider
\* the Config holds under that name and every Send it makes goes to that
\* provider; when the Config holds none under the name the answer is 400 and
\* no Send is made.
C15_NamedProviderOnly ==
    [][ /\ ( rq.pc = "g75" /\ rq.Provider # "all" /\ rq' # rq ) =>
             IF rq.Provider \in DOMAIN ResolvingMap
             THEN /\ rq'.pc = "single" /\ rq'.found
                  /\ rq'.list = <<ResolvingMap[rq.Provider]>>
             ELSE /\ rq'.pc = "done" /\ rq'.status = 400
                  /\ ~rq'.found /\ rq'.attempts = <<>>
        /\ ( rq'.found /\ rq'.Provider # "all" ) =>
             /\ Len(rq'.list) = 1
             /\ rq.found => rq'.list = rq.list
             /\ \A i \in 1 .. Len(rq'.attempts) : rq'.attempts[i].inst = rq'.list[1]
      ]_vars

\* a request for "alt" has been sent through instance 2, the provider
\* registered as "alt", and through no other
C15_Witness ==
    /\ rq.pc = "done" /\ rq.found /\ rq.isEmail /\ rq.Provider = "alt"
    /\ rq.list = <<2>> /\ Len(rq.attempts) = 1
    /\ rq.attempts[1].inst = 2 /\ rq.attempts[1].ok /\ rq.status = 200

\* C16: an "all" request resolves to all the providers of its category in
\* the Config, each once, and an "all" request that made no Send is answered
\* with an error.
C16_AllNeedsAProvider ==
    [][ /\ ( rq.pc = "g75" /\ rq.Provider = "all" /\ rq' # rq ) =>
             rq'.found /\ rq'.list \in Orders(ResolvingMap)
        /\ ( rq'.pc = "done" /\ rq'.ProviderIn = "all" /\ rq'.attempts = <<>> ) =>
             rq'.status >= 400
      ]_vars

\* the selector the request is to be dispatched with: its own, else the
\* configured default of its category, else "plain" for an email
ExpectedSelector ==
    IF rq.ProviderIn # "" THEN rq.ProviderIn
    ELSE IF rq.isEmail
         THEN (IF rq.seen.DefaultEmailProvider # "" THEN rq.seen.DefaultEmailProvider
               ELSE "plain")
         ELSE rq.seen.DefaultSMSProvider

\* C17: of a request that is parsed (category enabled, method allowed) the
\* selector dispatched is its own when it gave one, else the configured
\* default, else "plain" for an email; an SMS request left with no selector
\* is answered 400 and makes no Send.
C17_DefaultSubstitution ==
    ( /\ rq.pc \notin {"idle", "h338"}
      /\ rq.ok /\ rq.body = "ok" /\ MethodAllowed ) =>
    /\ ExpectedSelector = "" =>
         /\ ~rq.isEmail
         /\ rq.pc = "done" /\ rq.status = 400 /\ rq.attempts = <<>>
    /\ ( /\ ExpectedSelector # ""
         /\ IF rq.isEmail THEN rq.To # "" /\ rq.Subject # "" ELSE rq.Phone # "" ) =>
         rq.Provider = ExpectedSelector

\* an email request without selector, under a Config without default, has
\* been dispatched to "plain"
C17_Witness ==
    /\ rq.pc = "done" /\ rq.isEmail /\ rq.ProviderIn = ""
    /\ rq.seen.DefaultEmailProvider = "" /\ rq.Provider = "plain"
    /\ rq.attempts # <<>>

----------------------------------------------------------------------------
(* The registry while requests are served (SpecSend) *)

\* C20: while the service serves requests, no step changes the names
\* registered or the instance registered under a name.
C20_RegistryUntouchedByTraffic ==
    [][ phase = "serving" => regEmails' = regEmails /\ regSMSes' = regSMSes ]_vars

\* a request has sent and a ResetConfig call has looked up a name that is
\* not registered: the registry is the one of start-up
C20_Witness ==
    /\ rq.pc = "done" /\ rq.attempts # <<>>
    /\ ap["lib"].pc = "done" /\ ap["lib"].res = "noprovider"
    /\ regEmails = ServingEmails /\ regSMSes = ServingSMSes

----------------------------------------------------------------------------
(* The plainEmail provider under concurrent Load and SendEmail (SpecProvider) *)

\* C14: the address, the authentication and the sender that a SendEmail has
\* used come from one and the same Load.
C14_SendUsesOneLoad ==
    sd.pc = "sent" => sd.from = sd.addr /\ sd.addr = sd.auth

----------------------------------------------------------------------------
(* The order of an "all" dispatch (SpecOrder) *)

\* C19: two "all" dispatches against the same snapshot, with the same
\* providers failing, make the same attempts in the same order (and so end
\* with the same provider and the same status).
C19_AllOrderDeterministic ==
    ( dp.d[1].pc = "done" /\ dp.d[2].pc = "done" ) =>
    /\ dp.d[1].attempts = dp.d[2].attempts
    /\ dp.d[1].status = dp.d[2].status

----------------------------------------------------------------------------
(* The /v1/config handler and what ResetConfig publishes (SpecConfig) *)

\* the step in which the /v1/config handler takes a POST
ConfigPost == ap["http"].pc = "idle" /\ ap'["http"].Method = "POST"

\* C21, as claimed: with an admin key configured, a POST whose document has
\* no key is answered 401 and one with another key 403, whatever the rest of
\* the body that was read.
C21_KeyCheckedFirst ==
    [][ ( ConfigPost /\ objs[config].key # "" /\ ap'["http"].body # "unreadable" ) =>
          /\ ap'["http"].docKey = Nil => ap'["http"].status = 401
          /\ ap'["http"].docKey \notin {Nil, objs[config].key} =>
               ap'["http"].status = 403
      ]_vars

\* C21, amended: a body that cannot be read or decoded is answered 400; of a
\* decoded document, with an admin key configured, a missing key is answered
\* 401 and another key 403 before parseConfig builds a Config from the other
\* fields; with no admin key configured no POST is answered 401 or 403.
C21_KeyCheckedAfterDecoding ==
    [][ ConfigPost =>
          /\ ap'["http"].body # "ok" =>
               ap'["http"].pc = "done" /\ ap'["http"].status = 400
          /\ ( ap'["http"].body = "ok" /\ objs[config].key # ""
               /\ ap'["http"].docKey # objs[config].key ) =>
               /\ ap'["http"].pc = "done"
               /\ ap'["http"].status = IF ap'["http"].docKey = Nil THEN 401 ELSE 403
               /\ objs' = objs /\ nCalls' = nCalls
          /\ objs[config].key = "" => ap'["http"].status \notin {401, 403}
      ]_vars

\* a POST without key has been answered 401
C21_Witness ==
    /\ ap["http"].pc = "done" /\ ap["http"].Method = "POST"
    /\ ap["http"].body = "ok" /\ ap["http"].docKey = Nil
    /\ ap["http"].status = 401 /\ objs[config].key = "k"

\* C25: the Config a ResetConfig call publishes holds, for each category,
\* exactly the names of its draft that are registered, each with the
\* registered instance, and the configuration the draft gives each of them is
\* one that Load accepts.
C25_PublishedSnapshotComplete ==
    [][ \A p \in ApplyProcs :
          ( ap[p].pc = "l99" /\ ap'[p].pc = "done" ) =>
          LET c == objs'[config'] IN
          /\ config' = ap[p].conf
          /\ DOMAIN c.emails = DOMAIN c.Emails \cap DOMAIN regEmails
          /\ DOMAIN c.smses = DOMAIN c.SMSes \cap DOMAIN regSMSes
          /\ \A n \in DOMAIN c.emails :
               c.emails[n] = regEmails[n] /\ ~LoadFails(c.Emails[n])
          /\ \A n \in DOMAIN c.smses :
               c.smses[n] = regSMSes[n] /\ ~LoadFails(c.SMSes[n])
      ]_vars

\* the /v1/config handler has published a Config with two email providers
\* and one SMS provider
C25_Witness ==
    /\ ap["http"].pc = "done" /\ ap["http"].res = "ok"
    /\ config = ap["http"].conf
    /\ DOMAIN objs[config].emails = {"plain", "alt"}
    /\ DOMAIN objs[config].smses = {"plain"}

\* C30: a ResetConfig call that is bound to fail (its draft holds an entry
\* whose Load fails, or an unregistered name that is not ignored) changes the
\* configuration of no provider at any of its steps.
C30_FailedApplyKeepsProviders ==
    [][ \A p \in ApplyProcs :
          ( /\ ap[p].pc \in {"emails", "smses"} /\ ap'[p] # ap[p]
            /\ \/ HasFailingLoad(objs[ap[p].conf])
               \/ ( HasUnknown(objs[ap[p].conf])
                    /\ ~objs[ap[p].conf].IgnoreNotSupportedProvider ) ) =>
          loaded' = loaded
      ]_vars

----------------------------------------------------------------------------
(* Methods, categories and retry counts of send requests (SpecSend) *)

\* the request has gone through handleRequestArgs with a method the
\* configuration read there does not allow
MethodRefused ==
    /\ rq.pc \notin {"idle", "h338"}
    /\ \/ rq.Method = "PUT"
       \/ rq.Method = "GET" /\ ~rq.seen.AllowGet

\* C22, as claimed: a GET while AllowGet is false, and any method other than
\* POST and GET, is answered 405 with no Send.
C22_RefusedMethodIs405 ==
    MethodRefused => ( rq.pc = "done" /\ rq.status = 405 /\ rq.attempts = <<>> )

\* C22, amended: a GET while AllowGet is false, and any method other than POST
\* and GET, is rejected with no Send: with 405 when the category has a
\* provider, with 501 when it has none; a GET while AllowGet is true is never
\* answered 405.
C22_RefusedMethodRejected ==
    /\ MethodRefused =>
         /\ rq.pc = "done" /\ rq.attempts = <<>> /\ ~rq.found
         /\ rq.status = IF rq.ok THEN 405 ELSE 501
    /\ ( rq.pc \notin {"idle", "h338"} /\ rq.Method = "GET" /\ rq.seen.AllowGet ) =>
         rq.status # 405

\* a GET has been answered 405 by a service that has providers and does not
\* allow GET
C22_Witness ==
    /\ rq.pc = "done" /\ rq.Method = "GET" /\ ~rq.seen.AllowGet
    /\ rq.ok /\ rq.status = 405

\* the providers of the request's category in the Config handleRequestArgs
\* checks
CategoryMap == IF rq.isEmail THEN objs[rq._config].emails ELSE objs[rq._config].smses

\* C23: when handleRequestArgs finds no provider of the request's category in
\* the configuration, the request is answered 501 in that step, whatever its
\* method, body, selector and fields, and no Send is made; when it finds one,
\* the request is not answered 501.
C23_NoProviderIs501 ==
    [][ ( rq.pc = "h338" /\ rq' # rq ) =>
          IF DOMAIN CategoryMap = {}
          THEN /\ rq'.pc = "done" /\ rq'.status = 501
               /\ rq'.attempts = <<>> /\ ~rq'.found /\ rq'._config2 = 0
          ELSE rq'.status # 501
      ]_vars

\* a request with a method that is never allowed and no field at all has been
\* answered 501
C23_Witness ==
    /\ rq.pc = "done" /\ rq.status = 501 /\ rq.Method = "PUT"
    /\ rq.ProviderIn = "" /\ rq.attempts = <<>>

\* C24: in a request for "all", no provider is sent to twice and there are no
\* more attempts than providers in the resolved list, whatever the retry
\* count of the request.
C24_AllIgnoresRetry ==
    ( rq.found /\ rq.Provider = "all" ) =>
    /\ Len(rq.attempts) <= Len(rq.list)
    /\ \A i, j \in 1 .. Len(rq.attempts) :
         rq.attempts[i].inst = rq.attempts[j].inst => i = j
    /\ Cardinality({ rq.list[i] : i \in 1 .. Len(rq.list) }) = Len(rq.list)

\* an "all" request with a retry count of 1 or more has ended after every
\* provider of two failed once
C24_Witness ==
    /\ rq.pc = "done" /\ rq.Provider = "all" /\ rq.RetryIn >= 1
    /\ Len(rq.list) = 2 /\ Len(rq.attempts) = 2
    /\ \A i \in 1 .. 2 : ~rq.attempts[i].ok

\* C26: a request with a negative retry count goes through validation like
\* one with retry 0: it is rejected for its retry count in no case, it leaves
\* handleRequestArgs with a count of 0, and a single named provider is sent
\* to exactly once.
C26_NegativeRetryIsZero ==
    rq.RetryIn < 0 =>
    /\ ( rq.pc \in {"g71", "g75", "single", "all"} ) => rq.Retry = 0
    /\ ( rq.pc = "done" /\ rq.found /\ rq.Provider # "all" ) =>
         /\ Len(rq.attempts) = 1
         /\ rq.status = IF rq.attempts[1].ok THEN 200 ELSE 500
    /\ ( rq.pc = "done" /\ ~rq.found /\ rq._config2 = 0 ) =>
         \/ ~rq.ok
         \/ ~( rq.Method = "POST" \/ (rq.Method = "GET" /\ rq.seen.AllowGet) )
         \/ rq.body # "ok"
         \/ rq.Provider = Nil /\ rq.status = 400
              /\ \/ rq.isEmail /\ (rq.To = "" \/ rq.Subject = "")
                 \/ ~rq.isEmail /\ rq.Phone = ""
                 \/ SubstituteDefault(rq.isEmail, objs[rq._config], rq.ProviderIn) = ""

\* a request with retry -1 for the provider "plain" has ended after one Send
C26_Witness ==
    /\ rq.pc = "done" /\ rq.RetryIn = -1 /\ rq.Provider = "plain"
    /\ Len(rq.attempts) = 1

\* C29: a request is answered 200 only after a Send for it returned without
\* error, that Send being its last attempt and its only successful one.
C29_SuccessNeedsASend ==
    ( rq.pc = "done" /\ rq.status = 200 ) =>
    /\ rq.attempts # <<>>
    /\ rq.attempts[Len(rq.attempts)].ok
    /\ Cardinality({ i \in 1 .. Len(rq.attempts) : rq.attempts[i].ok }) = 1

----------------------------------------------------------------------------
(* configLocker and the provider calls (SpecLock) *)

\* C27: whoever holds configLocker is at the read or the assignment of
\* config, or at the Unlock that follows it; a goroutine that is in a
\* provider's Load or Send does not hold the lock, so that a call that never
\* returns leaves the lock to the others.
C27_LockNotHeldInProviderCalls ==
    \A p \in LockProcs :
      /\ configLocker.holder = p => StatementOf(p) \in {"read", "swap", "Unlock"}
      /\ StatementOf(p) \in {"Load", "Send"} => configLocker.holder # p
      /\ StatementOf(p) \in {"read", "swap", "Unlock"} => configLocker.holder = p

\* while the embedding program's ResetConfig is in a Load and a request is in
\* a Send, the handler of /v1/config holds the lock to publish
C27_Witness ==
    /\ StatementOf("lib") = "Load" /\ StatementOf("req") = "Send"
    /\ configLocker.holder = "http" /\ StatementOf("http") = "swap"

----------------------------------------------------------------------------
(* Provider state and the active Config (SpecConfig); plainEmail.Load
   (SpecPlainLoad) *)

\* C31: while no ResetConfig call is in progress, every provider of the
\* active Config's resolved maps has loaded the configuration the active
\* Config records under its name (stated for an active Config whose resolved
\* maps are those of its own Emails and SMSes).
C31_ProvidersMatchActiveConfig ==
    LET c == objs[config] IN
    ( /\ \A p \in ApplyProcs : ap[p].pc \in {"idle", "done"}
      /\ c.emails = Resolved(c.Emails, regEmails)
      /\ c.smses = Resolved(c.SMSes, regSMSes) ) =>
    /\ \A n \in DOMAIN c.emails : loaded[c.emails[n]] = c.Emails[n]
    /\ \A n \in DOMAIN c.smses : loaded[c.smses[n]] = c.SMSes[n]

\* the port texts that write an integer of -32768 .. 32767
Int16Texts ==
    { <<"2", "5">>, <<"8", "0">>, <<"+", "8", "0">>, <<"0">>,
      <<"3", "2", "7", "6", "7">>, <<"-", "1">>,
      <<"-", "3", "2", "7", "6", "8">> }

=============================================================================
